---- MODULE Spec2Model ----
(***************************************************************************)
(* Model of the RAG-PDF chat backend: the page-reference extractor, the    *)
(* context cleaner, the relevance ranker, the small-talk classifier and    *)
(* the /chat and /upload/pdf handlers around them.                         *)
(*                                                                         *)
(* Two variants of the server exist in the repository: the current         *)
(* src/server/server.js ("server") and the older server kept in            *)
(* src/unnamed/part_004 ("older").  The variable `variant` says which one  *)
(* is deployed.  Strings are TLA+ strings, read character by character     *)
(* with Len, SubSeq and \o.                                                *)
(***************************************************************************)
EXTENDS Integers, Sequences, FiniteSets, TLC

(***************************************************************************)
(* JavaScript string primitives                                            *)
(***************************************************************************)

CharAt(s, i) == SubSeq(s, i, i)

Upper == "ABCDEFGHIJKLMNOPQRSTUVWXYZ"

Lower == "abcdefghijklmnopqrstuvwxyz"

Digits == "0123456789"

\* the characters of an alphabet, each with its position in it
PositionsIn(alphabet) ==
  [c \in {CharAt(alphabet, i) : i \in 1..Len(alphabet)} |->
     CHOOSE i \in 1..Len(alphabet) : CharAt(alphabet, i) = c]

UpperPositions == PositionsIn(Upper)

LowerPositions == PositionsIn(Lower)

DigitPositions == PositionsIn(Digits)

IsDigit(c) == c \in DOMAIN DigitPositions

\* \s of the regular expressions: the whitespace characters of the inputs
IsSpace(c) == c \in {" ", "\t", "\n"}

\* \w of the regular expressions
IsWordChar(c) ==
  \/ c \in DOMAIN LowerPositions
  \/ c \in DOMAIN UpperPositions
  \/ IsDigit(c)
  \/ c = "_"

toLowerChar(c) ==
  IF c \in DOMAIN UpperPositions THEN CharAt(Lower, UpperPositions[c]) ELSE c

\* the least element of a non-empty set of positions
Least(S) == CHOOSE p \in S : \A q \in S : p <= q

lowerCharAt(s, i) == toLowerChar(CharAt(s, i))

\* the lowercased characters, over the positions lo..hi, by halves
RECURSIVE lowerCaseOf(_, _, _)
lowerCaseOf(s, lo, hi) ==
  IF lo > hi THEN ""
  ELSE IF lo = hi THEN lowerCharAt(s, lo)
  ELSE LET mid == (lo + hi) \div 2
       IN  lowerCaseOf(s, lo, mid) \o lowerCaseOf(s, mid + 1, hi)

toLowerCase(s) == lowerCaseOf(s, 1, Len(s))

\* s.startsWith(p) at position i (1-based)
MatchesAt(s, p, i) ==
  /\ i >= 1
  /\ i + Len(p) - 1 <= Len(s)
  /\ SubSeq(s, i, i + Len(p) - 1) = p

startsWith(s, p) == MatchesAt(s, p, 1)

includes(s, p) == \E i \in 1..(Len(s) - Len(p) + 1) : MatchesAt(s, p, i)

\* s.trim(): from the first to the last character that is no whitespace
trim(s) ==
  IF \A j \in 1..Len(s) : IsSpace(CharAt(s, j)) THEN ""
  ELSE SubSeq(s,
              CHOOSE a \in 1..Len(s) :
                /\ ~IsSpace(CharAt(s, a))
                /\ \A k \in 1..(a - 1) : IsSpace(CharAt(s, k)),
              CHOOSE b \in 1..Len(s) :
                /\ ~IsSpace(CharAt(s, b))
                /\ \A k \in (b + 1)..Len(s) : IsSpace(CharAt(s, k)))

\* parseInt of a run of decimal digits
RECURSIVE parseInt(_)
parseInt(d) ==
  IF d = "" THEN 0
  ELSE 10 * parseInt(SubSeq(d, 1, Len(d) - 1)) + (DigitPositions[CharAt(d, Len(d))] - 1)

\* array.join(sep)
RECURSIVE join(_, _)
join(arr, sep) ==
  IF arr = << >> THEN ""
  ELSE IF Len(arr) = 1 THEN arr[1]
  ELSE arr[1] \o sep \o join(Tail(arr), sep)

\* array.slice(0, n)
slice(arr, n) == SubSeq(arr, 1, IF Len(arr) < n THEN Len(arr) ELSE n)

(***************************************************************************)
(* Page-reference extractor                                                *)
(***************************************************************************)

\* first position at or after i that holds no digit
DigitsEnd(s, i) ==
  IF i > Len(s) THEN i
  ELSE CHOOSE j \in i..(Len(s) + 1) :
         /\ j = Len(s) + 1 \/ ~IsDigit(CharAt(s, j))
         /\ \A k \in i..(j - 1) : IsDigit(CharAt(s, k))

\* /\[Page (\d+)\]/ matched at position i: the position of the closing
\* bracket, or 0 when the pattern does not match there
pageRegexAt(s, i) ==
  LET e == DigitsEnd(s, i + 6)
  IN  IF /\ MatchesAt(s, "[Page ", i)
         /\ e > i + 6
         /\ e <= Len(s)
         /\ CharAt(s, e) = "]"
      THEN e ELSE 0

\* the positions at or after i where the page pattern matches
pageMatchesFrom(s, i) == {j \in i..Len(s) : pageRegexAt(s, j) > 0}

\* the while loop of pageRegex.exec, from lastIndex i: each match is the
\* leftmost one at or after lastIndex; the captured integers, in text order
RECURSIVE execAll(_, _)
execAll(s, i) ==
  IF pageMatchesFrom(s, i) = {} THEN << >>
  ELSE LET m == Least(pageMatchesFrom(s, i))
       IN  << parseInt(SubSeq(s, m + 6, pageRegexAt(s, m) - 1)) >>
           \o execAll(s, pageRegexAt(s, m) + 1)

\* the matches with their duplicates left in
dedupe_KeepAll(arr) == arr

\* [...new Set(matches)]: first occurrences, in insertion order
RECURSIVE dedupe(_)
dedupe(arr) ==
  IF arr = << >> THEN << >>
  ELSE LET rest == dedupe(SubSeq(arr, 1, Len(arr) - 1))
           x == arr[Len(arr)]
       IN  IF \E k \in 1..Len(rest) : rest[k] = x THEN rest ELSE Append(rest, x)

\* insertion of x into an ascending array, after the elements not above it
insertAscending(arr, x) ==
  LET n == Cardinality({k \in 1..Len(arr) : arr[k] <= x})
  IN  SubSeq(arr, 1, n) \o << x >> \o SubSeq(arr, n + 1, Len(arr))

\* .sort((a, b) => a - b)
RECURSIVE sortAscending(_)
sortAscending(arr) ==
  IF arr = << >> THEN << >>
  ELSE insertAscending(sortAscending(SubSeq(arr, 1, Len(arr) - 1)), arr[Len(arr)])

extractPageNumbers(content) == sortAscending(dedupe(execAll(content, 1)))

(***************************************************************************)
(* Context cleaner (older server only)                                     *)
(***************************************************************************)

\* .replace(/\[Page \d+\]/g, '')
RECURSIVE removePageMarkers(_, _)
removePageMarkers(s, i) ==
  IF pageMatchesFrom(s, i) = {} THEN SubSeq(s, i, Len(s))
  ELSE LET m == Least(pageMatchesFrom(s, i))
       IN  SubSeq(s, i, m - 1) \o removePageMarkers(s, pageRegexAt(s, m) + 1)

IsDot(c) == c = "."

\* first position at or after i that holds no dot
DotsEnd(s, i) ==
  IF i > Len(s) THEN i
  ELSE CHOOSE j \in i..(Len(s) + 1) :
         /\ j = Len(s) + 1 \/ ~IsDot(CharAt(s, j))
         /\ \A k \in i..(j - 1) : IsDot(CharAt(s, k))

\* the shortest run of dots that /\.{10,}/ removes
MinDotRun == 10

\* .replace(/\.{10,}/g, '')
\* the positions at or after i where /\.{10,}/ matches: the pattern is
\* greedy, so a match at the leftmost such position takes the whole run
dotRunsFrom(s, i) ==
  {j \in i..Len(s) : IsDot(CharAt(s, j)) /\ DotsEnd(s, j) - j >= MinDotRun}

RECURSIVE removeDotRuns(_, _)
removeDotRuns(s, i) ==
  IF dotRunsFrom(s, i) = {} THEN SubSeq(s, i, Len(s))
  ELSE LET m == Least(dotRunsFrom(s, i))
       IN  SubSeq(s, i, m - 1) \o removeDotRuns(s, DotsEnd(s, m))

\* first position at or after i that holds no whitespace
SpacesEnd(s, i) ==
  IF i > Len(s) THEN i
  ELSE CHOOSE j \in i..(Len(s) + 1) :
         /\ j = Len(s) + 1 \/ ~IsSpace(CharAt(s, j))
         /\ \A k \in i..(j - 1) : IsSpace(CharAt(s, k))

\* what /\s+/g -> ' ' leaves of the character at i: a run of whitespace
\* becomes one space, written for its first character
collapsedCharAt(s, i) ==
  IF ~IsSpace(CharAt(s, i)) THEN CharAt(s, i)
  ELSE IF i > 1 /\ IsSpace(CharAt(s, i - 1)) THEN "" ELSE " "

\* .replace(/\s+/g, ' ')
\* the characters with each whitespace run replaced by one space, over the positions lo..hi, by halves
RECURSIVE collapsedOf(_, _, _)
collapsedOf(s, lo, hi) ==
  IF lo > hi THEN ""
  ELSE IF lo = hi THEN collapsedCharAt(s, lo)
  ELSE LET mid == (lo + hi) \div 2
       IN  collapsedOf(s, lo, mid) \o collapsedOf(s, mid + 1, hi)

collapseWhitespace(s) == collapsedOf(s, 1, Len(s))

\* the positions at or after i where "undefined" starts
undefinedFrom(s, i) == {j \in i..Len(s) : MatchesAt(s, "undefined", j)}

\* .replace(/undefined/g, '')
RECURSIVE removeUndefined(_, _)
removeUndefined(s, i) ==
  IF undefinedFrom(s, i) = {} THEN SubSeq(s, i, Len(s))
  ELSE LET m == Least(undefinedFrom(s, i))
       IN  SubSeq(s, i, m - 1) \o removeUndefined(s, m + Len("undefined"))

\* the characters [\w\s.,!?;:'"-] that the last replace keeps
IsSafeChar(c) ==
  \/ IsWordChar(c)
  \/ IsSpace(c)
  \/ c \in {".", ",", "!", "?", ";", ":", "'", "\"", "-"}

\* .replace(/[^\w\s.,!?;:'"-]/g, '')
safeCharAt(s, i) == IF IsSafeChar(CharAt(s, i)) THEN CharAt(s, i) ELSE ""

\* the characters the class keeps, over the positions lo..hi, by halves
RECURSIVE safeCharsOf(_, _, _)
safeCharsOf(s, lo, hi) ==
  IF lo > hi THEN ""
  ELSE IF lo = hi THEN safeCharAt(s, lo)
  ELSE LET mid == (lo + hi) \div 2
       IN  safeCharsOf(s, lo, mid) \o safeCharsOf(s, mid + 1, hi)

removeSpecialChars(s) == safeCharsOf(s, 1, Len(s))

cleanContext(content) ==
  trim(removeSpecialChars(
         removeUndefined(
           collapseWhitespace(
             removeDotRuns(
               removePageMarkers(content, 1), 1)), 1)))

(***************************************************************************)
(* Relevance ranker                                                        *)
(***************************************************************************)

IsTerminator(c) == c \in {".", "!", "?"}

\* the position of the k-th separator of a set of positions; 0 for k = 0
\* and one past the end of s for the one after the last
separatorAt(s, seps, k) ==
  IF k = 0 THEN 0
  ELSE IF k > Cardinality(seps) THEN Len(s) + 1
  ELSE CHOOSE p \in seps : Cardinality({q \in seps : q <= p}) = k

\* content.split(/[.!?]/): the pieces between the terminators
splitSentences(s) ==
  LET seps == {j \in 1..Len(s) : IsTerminator(CharAt(s, j))}
  IN  [k \in 1..(Cardinality(seps) + 1) |->
         SubSeq(s, separatorAt(s, seps, k - 1) + 1, separatorAt(s, seps, k) - 1)]

\* the length a trimmed candidate must exceed to be kept
MinSentenceLength == 10

keepsSentence(s) == Len(trim(s)) > MinSentenceLength

\* content.split(/[.!?]/).filter(s => s.trim().length > 10)
sentencesOf(content) == SelectSeq(splitSentences(content), keepsSentence)

IsNoSpace(c) == ~IsSpace(c)

\* first position at or after i that holds whitespace
WordEnd(s, i) ==
  IF i > Len(s) THEN i
  ELSE CHOOSE j \in i..(Len(s) + 1) :
         /\ j = Len(s) + 1 \/ ~IsNoSpace(CharAt(s, j))
         /\ \A k \in i..(j - 1) : IsNoSpace(CharAt(s, k))

\* s.split(/\s+/), from position i on
RECURSIVE splitWhitespace(_, _)
splitWhitespace(s, i) ==
  LET e == WordEnd(s, i)
  IN  IF e > Len(s) THEN << SubSeq(s, i, Len(s)) >>
      ELSE << SubSeq(s, i, e - 1) >> \o splitWhitespace(s, SpacesEnd(s, e))

queryKeywordsOf(query) == splitWhitespace(toLowerCase(query), 1)

\* the length a keyword must exceed to count (server.js only)
MinKeywordLength == 3

KeywordPoints == 3

PhrasePoints == 10

DefinitionPoints == 15

QaPoints == 5

\* a keyword counted whatever its length
keywordCounts_AnyLength(v, keyword, lowerSentence) == includes(lowerSentence, keyword)

keywordCounts(v, keyword, lowerSentence) ==
  /\ v = "server" => Len(keyword) > MinKeywordLength
  /\ includes(lowerSentence, keyword)

\* queryKeywords.forEach(keyword => { if (...) score += 3 })
RECURSIVE keywordScore(_, _, _)
keywordScore(v, keywords, lowerSentence) ==
  IF keywords = << >> THEN 0
  ELSE (IF keywordCounts(v, Head(keywords), lowerSentence) THEN KeywordPoints ELSE 0)
       + keywordScore(v, Tail(keywords), lowerSentence)

isDefinition(v, lowerSentence, lowerQuery) ==
  \/ startsWith(lowerSentence, lowerQuery \o " is")
  \/ startsWith(lowerSentence, lowerQuery \o " are")
  \/ includes(lowerSentence, "is " \o lowerQuery)
  \/ includes(lowerSentence, "are " \o lowerQuery)
  \/ v = "server" /\ includes(lowerSentence, "defined as")
  \/ v = "server" /\ includes(lowerSentence, "refers to")

isQaSentence(v, lowerSentence, pdfType) ==
  /\ v = "server"
  /\ pdfType = "qa"
  /\ includes(lowerSentence, "question") \/ includes(lowerSentence, "answer")

\* the score the map callback gives one sentence
scoreOf(v, sentence, query, pdfType) ==
  LET lowerSentence == toLowerCase(sentence)
      lowerQuery == toLowerCase(query)
  IN  keywordScore(v, queryKeywordsOf(query), lowerSentence)
      + (IF includes(lowerSentence, lowerQuery) THEN PhrasePoints ELSE 0)
      + (IF isDefinition(v, lowerSentence, lowerQuery) THEN DefinitionPoints ELSE 0)
      + (IF isQaSentence(v, lowerSentence, pdfType) THEN QaPoints ELSE 0)

scoredSentencesOf(v, content, query, pdfType) ==
  LET sentences == sentencesOf(content)
  IN  [i \in 1..Len(sentences) |->
         [sentence |-> sentences[i],
          score |-> scoreOf(v, sentences[i], query, pdfType)]]

\* .filter(item => item.score > 0)
hasScore(item) == item.score > 0

\* insertion before the items of equal score: a sort that is not stable
insertByScore_BeforeEqual(arr, item) ==
  LET n == Cardinality({k \in 1..Len(arr) : arr[k].score > item.score})
  IN  SubSeq(arr, 1, n) \o << item >> \o SubSeq(arr, n + 1, Len(arr))

\* insertion of an item into an array sorted by descending score, after
\* the items whose score is not below its own
insertByScore(arr, item) ==
  LET n == Cardinality({k \in 1..Len(arr) : arr[k].score >= item.score})
  IN  SubSeq(arr, 1, n) \o << item >> \o SubSeq(arr, n + 1, Len(arr))

\* .sort((a, b) => b.score - a.score), a stable sort
RECURSIVE sortByScore(_)
sortByScore(arr) ==
  IF arr = << >> THEN << >>
  ELSE insertByScore(sortByScore(SubSeq(arr, 1, Len(arr) - 1)), arr[Len(arr)])

\* scoredSentences.filter(...).sort(...).map(item => item.sentence)
relevantSentencesOf(scored) ==
  LET sorted == sortByScore(SelectSeq(scored, hasScore))
  IN  [i \in 1..Len(sorted) |-> sorted[i].sentence]

\* the number of sentences the ranker returns at most
TopSentences(v) == IF v = "server" THEN 7 ELSE 5

\* every sentence with a score, without the cut
topSentencesOf_NoCut(v, relevant) == relevant

\* relevantSentences.slice(0, K)
topSentencesOf(v, relevant) == slice(relevant, TopSentences(v))

\* relevantSentences.slice(0, K).join(". ") + "."
contextOf(v, relevant) == join(topSentencesOf(v, relevant), ". ") \o "."

filterRelevantContent(v, content, query, pdfType) ==
  contextOf(v, relevantSentencesOf(scoredSentencesOf(v, content, query, pdfType)))

(***************************************************************************)
(* Small-talk classifier                                                   *)
(***************************************************************************)

\* smallTalkPatterns[k].test(q) for a case-folded q
smallTalkPattern(k, q) ==
  CASE k = 1 -> q \in {"hi", "hello", "hey", "greetings"}
    [] k = 2 -> q = "how are you"
    [] k = 3 -> startsWith(q, "thanks") \/ includes(q, "thank you") \/ includes(q, "thx")
    [] k = 4 -> \/ startsWith(q, "good morning")
                \/ includes(q, "good afternoon")
                \/ includes(q, "good evening")
    [] k = 5 -> startsWith(q, "what's up") \/ includes(q, "sup")
    [] k = 6 -> q = "who are you"

NumPatterns == 6

\* the patterns are case-insensitive and tested on the trimmed query
matchingPatterns(query) ==
  {k \in 1..NumPatterns : smallTalkPattern(k, toLowerCase(trim(query)))}

\* only the greetings pattern is tried
isSmallTalk_GreetingsOnly(query) == 1 \in matchingPatterns(query)

isSmallTalk(query) == matchingPatterns(query) # {}

DefaultSmallTalk == "How can I help you with your document today?"

smallTalkTemplate(v, k, query) ==
  IF v = "server"
  THEN CASE k = 1 -> "Hello! I'm your PDF assistant, ready to help you explore and understand your documents. What would you like to know about your PDF?"
         [] k = 2 -> "I'm doing great, thanks for asking! I'm ready to help you understand your document. What would you like to explore today?"
         [] k = 3 -> "You're welcome! I'm glad I could help. Is there anything else you'd like to know about your document?"
         [] k = 4 -> query \o "! It's a great time to learn something new from your document. What would you like to explore?"
         [] k = 5 -> "Just ready to help you understand your documents! What would you like to know?"
         [] k = 6 -> "I'm your PDF assistant, here to help you understand and explore the content of your documents. You can ask me questions about anything in your PDF, and I'll provide detailed explanations!"
  ELSE CASE k = 1 -> "Hello! I'm here to help you understand your PDF documents. What would you like to know about your document?"
         [] k = 2 -> "I'm doing well, thank you! Ready to help you explore your document. What would you like to know?"
         [] k = 3 -> "You're welcome! Is there anything else you'd like to know about your document?"
         [] k = 4 -> query \o "! How can I help you with your document today?"
         [] k = 5 -> "Just ready to help you understand your documents! What would you like to know?"
         [] k = 6 -> "I'm your PDF assistant, here to help you understand and explore the content of your documents. You can ask me questions about anything in your PDF!"

\* a chain that knows the exact phrases only
getSmallTalkResponse_ExactOnly(v, query) ==
  LET lowerQuery == trim(toLowerCase(query))
      hits == {k \in {1, 2, 6} : smallTalkPattern(k, lowerQuery)}
  IN  IF hits = {} THEN DefaultSmallTalk
      ELSE smallTalkTemplate(v, CHOOSE k \in hits : \A j \in hits : k <= j, query)

\* the chain of tests on query.toLowerCase().trim(): the first one wins
getSmallTalkResponse(v, query) ==
  LET lowerQuery == trim(toLowerCase(query))
      hits == {k \in 1..NumPatterns : smallTalkPattern(k, lowerQuery)}
  IN  IF hits = {} THEN DefaultSmallTalk
      ELSE smallTalkTemplate(v, CHOOSE k \in hits : \A j \in hits : k <= j, query)

(***************************************************************************)
(* Answer-request assembler: the parts around the generation call          *)
(***************************************************************************)

\* Number.prototype.toString for a natural number
RECURSIVE toString(_)
toString(n) ==
  IF n < 10 THEN CharAt(Digits, n + 1)
  ELSE toString(n \div 10) \o CharAt(Digits, (n % 10) + 1)

numbersToStrings(arr) == [i \in 1..Len(arr) |-> toString(arr[i])]

CitationPrefix == "This information can be found on pages "

pageRefTextOf(refs) ==
  IF Len(refs) > 0
  THEN CitationPrefix \o join(numbersToStrings(refs), ", ") \o "."
  ELSE ""

\* the answers below this length are retried (older server)
MinAnswerLength == 50

isNonAnswer(text) ==
  \/ includes(text, "I couldn't find")
  \/ includes(text, "the document doesn't contain")
  \/ Len(text) < MinAnswerLength

\* the citation is appended when the generated text does not hold it
withPageReferences(v, text, pageRefText) ==
  IF v = "server"
  THEN IF pageRefText # "" /\ ~includes(text, pageRefText)
       THEN text \o "\n\n" \o pageRefText ELSE text
  ELSE IF /\ pageRefText # ""
          /\ ~includes(text, pageRefText)
          /\ ~includes(text, "I couldn't find")
       THEN text \o " " \o pageRefText ELSE text

\* a catch block whose answer does not name the query
fallbackAnswer_NoQuery(v, query, refs) ==
  "Based on the document, I found relevant information. " \o pageRefTextOf(refs)

\* the answer of the catch block
fallbackAnswer(v, query, refs) ==
  IF v = "server"
  THEN "Based on the document, I found relevant information about \"" \o query
       \o "\". " \o pageRefTextOf(refs)
  ELSE IF Len(refs) > 0
       THEN "I found some information about \"" \o query
            \o "\" in the document. " \o pageRefTextOf(refs)
       ELSE "I couldn't find specific information about \"" \o query
            \o "\" in the document. Please try asking about a different topic."

\* a not-found answer that does not name the query
notFoundAnswer_NoQuery(v, query) ==
  "I couldn't find specific information in this document."

\* the answer when the retriever returns no chunk
notFoundAnswer(v, query) ==
  IF v = "server"
  THEN "I couldn't find specific information about \"" \o query
       \o "\" in this document. The document might focus on different topics. Could you try asking about something else or rephrasing your question?"
  ELSE "I couldn't find information about \"" \o query
       \o "\" in this document. Please try asking about something else or check if you've uploaded the right document."

\* retriever k: the most chunks a retrieval returns
retrieverK(v, depth) ==
  IF v = "server" THEN (IF depth \in {"deep", "deeper"} THEN 10 ELSE 7) ELSE 10

\* generationConfig of getGenerativeModel; temperature and topP in hundredths
generationConfig(v, depth) ==
  [temperature |-> IF depth = "deep" THEN 30 ELSE 10,
   topK |-> IF depth = "deep" THEN 40 ELSE 20,
   topP |-> IF depth = "deep" THEN 95 ELSE 90,
   maxOutputTokens |->
     IF v = "server" THEN (IF depth = "deep" THEN 4096 ELSE 2048)
     ELSE (IF depth = "deep" THEN 2048 ELSE 1024)]

\* a mapping that tells only deep and deeper from the rest
depthInstruction_DeepOrNot(v, depth) ==
  IF depth = "deep"
  THEN "Provide a comprehensive, in-depth explanation with detailed examples, analogies, and thorough context."
  ELSE IF depth = "deeper"
  THEN "Provide an extremely detailed, exhaustive explanation covering all aspects, with multiple examples, practical applications, and connections to related concepts."
  ELSE "Provide a clear, direct answer that addresses the specific question."

\* let depthInstruction: the instruction the prompt carries for the depth
depthInstruction(v, depth) ==
  IF v = "server"
  THEN IF depth = "step-by-step"
       THEN "Provide a detailed, step-by-step explanation. Break down complex concepts into manageable steps with clear transitions between them."
       ELSE IF depth = "deep"
       THEN "Provide a comprehensive, in-depth explanation with detailed examples, analogies, and thorough context."
       ELSE IF depth = "deeper"
       THEN "Provide an extremely detailed, exhaustive explanation covering all aspects, with multiple examples, practical applications, and connections to related concepts."
       ELSE IF depth = "simple"
       THEN "Provide a simple, easy-to-understand explanation. Avoid technical jargon and use everyday language with relatable examples."
       ELSE "Provide a clear, direct answer that addresses the specific question."
  ELSE IF depth = "deep"
       THEN "Provide a comprehensive, in-depth explanation with detailed examples and thorough context."
       ELSE IF depth = "deeper"
       THEN "Provide an extremely detailed, exhaustive explanation covering all aspects, with multiple examples and practical applications."
       ELSE "Provide a clear, direct answer that addresses the specific question."

\* what the first generation call of a request is built from
generationRequestOf(v, depth) ==
  [config |-> generationConfig(v, depth), instruction |-> depthInstruction(v, depth)]

\* no generation call has been built
NoGeneration ==
  [config |-> [temperature |-> 0, topK |-> 0, topP |-> 0, maxOutputTokens |-> 0],
   instruction |-> ""]

(***************************************************************************)
(* Inputs of the model                                                     *)
(***************************************************************************)

\* the most chunks a retrieval returns in the model
MaxChunks == 2

\* the chunk texts a retrieval can return
ChunkTexts ==
  { "Paris [Page 3] is the capital of France.",
    "[Page 7] It has 2 million [Page x] people [Page 07] [Page 0].",
    "Paris is big! France is paris? Paris is old. Paris is hot. So paris is defined as x [Page",
    "3] Rome undefined @ x.......... Paris rock. Paris rocks!" }

RECURSIVE SeqsUpTo(_, _)
SeqsUpTo(S, n) ==
  IF n = 0 THEN {<< >>}
  ELSE LET shorter == SeqsUpTo(S, n - 1)
       IN  shorter \cup {Append(q, x) : q \in {r \in shorter : Len(r) = n - 1}, x \in S}

\* the query of a request; "" stands for a missing query
Queries ==
  {"", "Hello", "hi", "Thanks!", "Who are you?", "capital of France", "paris",
   "tell me about paris supply, thank you"}

\* the upload requests followed in one run
MaxUploads == 2

\* generatePdfId returns 16 random bytes in hex; pdfIdOf(n) stands for the
\* n-th identifier minted
pdfIdOf(n) == "pdf" \o ToString(n)

\* the identifiers generatePdfId can mint
PdfIds == {pdfIdOf(n) : n \in 1..MaxUploads}

\* the pdfId of a request; "" stands for a missing one
RequestPdfIds == {pdfIdOf(1), "", "unknown"}

\* req.file of an upload request: "none" stands for a request without a file,
\* "corrupt.pdf" for a file pdf-parse cannot read
UploadFiles == {"none", "corrupt.pdf", "doc.pdf"}

\* chunks.length after splitDocuments
ChunkCounts == {0, 20, 21, 41}

\* the error QdrantVectorStore.fromDocuments throws
BatchError == "fetch failed"

DepthLevels == {"normal", "simple", "deep", "deeper", "step-by-step"}

\* the depth of a request; "" stands for a missing one
RequestDepths == DepthLevels \cup {""}

GoodAnswer == "Paris is the capital of France and also its largest city."

ShortAnswer == "Yes."

RefusalAnswer == "I couldn't find specific information about this in the document. Please try asking about a different topic or rephrasing your question."

\* the texts a generation call can return
GeneratedTexts(pageRefText) ==
  {GoodAnswer, ShortAnswer, RefusalAnswer, GoodAnswer \o " " \o pageRefText}

(***************************************************************************)
(* State                                                                   *)
(***************************************************************************)

VARIABLES
  variant,            \* "server" (src/server/server.js) or "older" (part_004)
  apiKeySet,          \* process.env.GOOGLE_API_KEY is set
  pdfCollections,     \* the Map of uploaded documents: id -> record
  pc,                 \* where the /chat handler is: idle, retrieving, generating, retrying, done
  req,                \* req.body of the chat request
  results,            \* the retrieved chunk texts
  relevantContent,    \* the chunks joined with a space
  pageReferences,     \* extractPageNumbers(relevantContent)
  cleanedContext,     \* cleanContext(relevantContent), older server
  scoredSentences,    \* the ranker's scored candidates
  relevantSentences,  \* the ranker's sorted sentences with a score
  filteredContext,    \* the ranker's result
  retrievalCalls,     \* retriever.invoke calls of this request
  generationCalls,    \* model.generateContent calls of this request
  generationRequest,  \* the configuration and depth instruction of the calls
  generated,          \* the texts the generation calls returned, in order
  response,           \* the response sent for this request
  ui,                 \* the chat component in the browser: "none" when the page
                      \* is not open, "five-depth" (part_001) or "two-depth" (part_002)
  currentPdfId,       \* the component's currentPdfId prop
  responseDepth,      \* useState responseDepth (part_001)
  conversationDepth,  \* useState conversationDepth (part_002)
  inputMessage,       \* useState inputMessage
  isLoading,          \* useState isLoading
  messages,           \* useState messages
  sent,               \* the body of the component's chat request in flight
  pendingUploads,     \* req.file of the upload requests still to arrive
  uploadResponse,     \* the response of the last upload request
  queue,              \* the jobs waiting in "file-upload-queue", oldest first
  jobResult,          \* the jobs the worker finished: pdfId -> outcome
  wpc,                \* where the worker's job handler is: idle, storing, cleaning
  job,                \* job.data of the job being processed
  chunkCount,         \* chunks.length
  batchStart,         \* the loop variable i of the batch loop
  retries,            \* the failed attempts at the current batch
  stored,             \* the batches of this job stored in Qdrant, by their i
  vectorCollections,  \* the Qdrant collections: name -> [old: created over 24 h ago]
  services,           \* Redis and Qdrant as the last GET /health met them
  healthResponse      \* the response of the last GET /health

uiVars ==
  << ui, currentPdfId, responseDepth, conversationDepth, inputMessage, isLoading,
     messages, sent >>

workerVars == << wpc, job, chunkCount, batchStart, retries, stored >>

indexVars ==
  << pendingUploads, uploadResponse, queue, jobResult, workerVars, vectorCollections,
     services, healthResponse >>

vars ==
  << variant, apiKeySet, pdfCollections, pc, req, results, relevantContent,
     pageReferences, cleanedContext, scoredSentences, relevantSentences,
     filteredContext, retrievalCalls, generationCalls, generationRequest,
     generated, response, uiVars, indexVars >>

locals ==
  << results, relevantContent, pageReferences, cleanedContext, scoredSentences,
     relevantSentences, filteredContext >>

NoRequest == [query |-> "", pdfId |-> "", depth |-> ""]

NoResponse ==
  [status |-> 0, error |-> "", results |-> "", pageReferences |-> << >>, count |-> 0]

errorResponse(status, error) ==
  [status |-> status, error |-> error, results |-> "", pageReferences |-> << >>,
   count |-> 0]

jsonResponse(text, refs, count) ==
  [status |-> 200, error |-> "", results |-> text, pageReferences |-> refs,
   count |-> count]

\* the state of the server process after start-up
ServerInit ==
  /\ variant \in {"server", "older"}
  /\ apiKeySet \in BOOLEAN
  /\ pdfCollections = << >>
  /\ pc = "idle"
  /\ req = NoRequest
  /\ results = << >>
  /\ relevantContent = ""
  /\ pageReferences = << >>
  /\ cleanedContext = ""
  /\ scoredSentences = << >>
  /\ relevantSentences = << >>
  /\ filteredContext = ""
  /\ retrievalCalls = 0
  /\ generationCalls = 0
  /\ generationRequest = NoGeneration
  /\ generated = << >>
  /\ response = NoResponse

\* no request of the chat component is in flight
NothingSent == [query |-> "", pdfId |-> "", depth |-> ""]

\* the page is not open in a browser
UIUnmounted ==
  /\ ui = "none"
  /\ currentPdfId = ""
  /\ responseDepth = "normal"
  /\ conversationDepth = "normal"
  /\ inputMessage = ""
  /\ isLoading = FALSE
  /\ messages = << >>
  /\ sent = NothingSent

NoJob == [pdfId |-> "", filename |-> ""]

NoUploadResponse == [status |-> 0, error |-> "", pdfId |-> ""]

NoProbe == [redis |-> "", qdrant |-> ""]

NoHealthResponse ==
  [status |-> 0, state |-> "", error |-> "", redis |-> "", qdrant |-> "",
   googleAI |-> ""]

\* the worker process waits for a job
WorkerIdle ==
  /\ wpc = "idle"
  /\ job = NoJob
  /\ chunkCount = 0
  /\ batchStart = 0
  /\ retries = 0
  /\ stored = {}

\* an empty queue, an empty Qdrant and an idle worker
IndexInit ==
  /\ uploadResponse = NoUploadResponse
  /\ queue = << >>
  /\ jobResult = << >>
  /\ WorkerIdle
  /\ vectorCollections = << >>
  /\ services = NoProbe
  /\ healthResponse = NoHealthResponse

\* the chat server with one upload request on its way
Init == ServerInit /\ UIUnmounted /\ IndexInit /\ pendingUploads = << "doc.pdf" >>

clearLocals ==
  /\ results' = << >>
  /\ relevantContent' = ""
  /\ pageReferences' = << >>
  /\ cleanedContext' = ""
  /\ scoredSentences' = << >>
  /\ relevantSentences' = << >>
  /\ filteredContext' = ""

(***************************************************************************)
(* POST /upload/pdf                                                        *)
(***************************************************************************)

pdfRecord(v, filename) ==
  IF v = "server"
  THEN [filename |-> filename, type |-> "general"]
  ELSE [filename |-> filename]

\* how an upload request ends: without a file (400), with text extraction
\* throwing (server.js only) or queue.add throwing (500), or accepted
UploadOutcomes(v, file) ==
  IF file = "none" THEN {"no file"}
  ELSE IF v = "server" /\ file = "corrupt.pdf" THEN {"extraction failed"}
  ELSE {"queue failed", "accepted"}

\* generatePdfId: an identifier no earlier upload was given
generatePdfId(registered) == pdfIdOf(Cardinality(DOMAIN registered) + 1)

uploadResponseOf(outcome, pdfId) ==
  IF outcome = "no file"
  THEN [status |-> 400, error |-> "No file uploaded", pdfId |-> ""]
  ELSE IF outcome = "accepted"
  THEN [status |-> 200, error |-> "", pdfId |-> pdfId]
  ELSE [status |-> 500, error |-> "Internal server error", pdfId |-> ""]

\* pdfCollections.set(pdfId, ...), whenever the handler got past generatePdfId
setBeforeQueueAdd(registered, v, outcome, pdfId, file) ==
  IF outcome # "no file"
  THEN [id \in DOMAIN registered \cup {pdfId} |->
          IF id = pdfId THEN pdfRecord(v, file) ELSE registered[id]]
  ELSE registered

\* pdfCollections after the handler: only an accepted upload reaches
\* pdfCollections.set, after extractTextFromPDF and queue.add returned
setAfterQueueAdd(registered, v, outcome, pdfId, file) ==
  IF outcome = "accepted"
  THEN [id \in DOMAIN registered \cup {pdfId} |->
          IF id = pdfId THEN pdfRecord(v, file) ELSE registered[id]]
  ELSE registered

\* the whole handler of one upload request
UploadPdf ==
  /\ pendingUploads # << >>
  /\ pendingUploads' = Tail(pendingUploads)
  /\ LET file == Head(pendingUploads)
         pdfId == generatePdfId(pdfCollections)
     IN \E outcome \in UploadOutcomes(variant, file) :
          /\ queue' = IF outcome = "accepted"
                      THEN Append(queue, [pdfId |-> pdfId, filename |-> file])
                      ELSE queue
          /\ pdfCollections' =
               setAfterQueueAdd(pdfCollections, variant, outcome, pdfId, file)
          /\ uploadResponse' = uploadResponseOf(outcome, pdfId)
  /\ UNCHANGED << variant, apiKeySet, pc, req, locals, retrievalCalls,
                  generationCalls, generationRequest, generated, response, uiVars,
                  jobResult, workerVars, vectorCollections, services, healthResponse >>

(***************************************************************************)
(* GET /health (server.js)                                                 *)
(***************************************************************************)

\* what the dependencies answer to a health request
RedisStates == {"up", "down"}

QdrantStates == {"ok", "not ok", "unreachable"}

unhealthy(message) ==
  [status |-> 500, state |-> "unhealthy", error |-> message, redis |-> "",
   qdrant |-> "", googleAI |-> ""]

healthy(keySet) ==
  [status |-> 200, state |-> "healthy", error |-> "", redis |-> "connected",
   qdrant |-> "connected",
   googleAI |-> IF keySet THEN "configured" ELSE "not configured"]

\* server.js imports no Redis and defines no redisConnection: evaluating
\* new Redis(redisConnection) throws a ReferenceError
RedisIsBound == FALSE

\* the body of the handler's try block, statement by statement
healthOf(redis, qdrant, keySet) ==
  IF ~RedisIsBound THEN unhealthy("Redis is not defined")
  ELSE IF redis = "down" THEN unhealthy("Connection is closed.")
  ELSE IF qdrant = "unreachable" THEN unhealthy("fetch failed")
  ELSE IF qdrant = "not ok" THEN unhealthy("Qdrant connection failed")
  ELSE healthy(keySet)

Health ==
  /\ variant = "server"
  /\ \E redis \in RedisStates, qdrant \in QdrantStates :
       /\ services' = [redis |-> redis, qdrant |-> qdrant]
       /\ healthResponse' = healthOf(redis, qdrant, apiKeySet)
  /\ UNCHANGED << variant, apiKeySet, pdfCollections, pc, req, locals,
                  retrievalCalls, generationCalls, generationRequest, generated,
                  response, uiVars, pendingUploads, uploadResponse, queue,
                  jobResult, workerVars, vectorCollections >>

(***************************************************************************)
(* The worker (part_004): one job at a time                                *)
(***************************************************************************)

batchSize == 20

maxRetries == 10

failed(message) == [state |-> "failed", error |-> message, chunks |-> 0]

completed(chunks) == [state |-> "completed", error |-> "", chunks |-> chunks]

\* the job leaves the handler with this outcome
finish(outcome) ==
  /\ jobResult' = [id \in DOMAIN jobResult \cup {job.pdfId} |->
                     IF id = job.pdfId THEN outcome ELSE jobResult[id]]
  /\ wpc' = "idle"
  /\ job' = NoJob
  /\ chunkCount' = 0
  /\ batchStart' = 0
  /\ retries' = 0
  /\ stored' = {}

\* what can stop the handler before the batch loop
PreparationErrors ==
  {"Qdrant is not available after multiple attempts", "File not found",
   "No content extracted from PDF"}

\* the worker takes the oldest job: checkQdrantAvailability, the checks of
\* job.data and of the file, loader.load and splitDocuments
JobStart ==
  /\ wpc = "idle"
  /\ queue # << >>
  /\ queue' = Tail(queue)
  /\ \/ \E message \in PreparationErrors :
          /\ jobResult' = [id \in DOMAIN jobResult \cup {Head(queue).pdfId} |->
                             IF id = Head(queue).pdfId THEN failed(message)
                             ELSE jobResult[id]]
          /\ UNCHANGED workerVars
     \/ \E chunks \in ChunkCounts :
          /\ job' = Head(queue)
          /\ chunkCount' = chunks
          /\ batchStart' = 0
          /\ retries' = 0
          /\ stored' = {}
          /\ wpc' = IF 0 < chunks THEN "storing" ELSE "cleaning"
          /\ UNCHANGED jobResult
  /\ UNCHANGED << variant, apiKeySet, pdfCollections, pc, req, locals,
                  retrievalCalls, generationCalls, generationRequest, generated,
                  response, uiVars, pendingUploads, uploadResponse, vectorCollections,
                  services, healthResponse >>

\* fromDocuments creates the collection of the document when it is missing
withCollection(existing, name) ==
  [n \in DOMAIN existing \cup {name} |->
     IF n \in DOMAIN existing THEN existing[n] ELSE [old |-> FALSE]]

\* the batch after a batch that failed maxRetries times is tried all the same
batchFailed_SkipsBatch ==
  /\ retries' = 0
  /\ batchStart' = batchStart + batchSize
  /\ wpc' = IF batchStart + batchSize < chunkCount THEN "storing" ELSE "cleaning"
  /\ UNCHANGED << job, chunkCount, stored, jobResult >>

\* the catch block of an attempt that was the last one allowed: throw error
batchFailed == finish(failed(BatchError))

\* one pass of the while loop: an attempt to store chunks.slice(i, i + batchSize)
StoreBatch ==
  /\ wpc = "storing"
  /\ retries < maxRetries
  /\ \/ /\ stored' = stored \cup {batchStart}
        /\ vectorCollections' = withCollection(vectorCollections, job.pdfId)
        /\ retries' = 0
        /\ batchStart' = batchStart + batchSize
        /\ wpc' = IF batchStart + batchSize < chunkCount THEN "storing"
                  ELSE "cleaning"
        /\ UNCHANGED << job, chunkCount, jobResult >>
     \/ /\ IF retries + 1 >= maxRetries
           THEN batchFailed
           ELSE /\ retries' = retries + 1
                /\ UNCHANGED << wpc, job, chunkCount, batchStart, stored,
                                jobResult >>
        /\ UNCHANGED vectorCollections
  /\ UNCHANGED << variant, apiKeySet, pdfCollections, pc, req, locals,
                  retrievalCalls, generationCalls, generationRequest, generated,
                  response, uiVars, pendingUploads, uploadResponse, queue,
                  services, healthResponse >>

\* collection.name.startsWith('.')
isSystemCollection(name) == Len(name) > 0 /\ SubSeq(name, 1, 1) = "."

\* the collections the loop of cleanupUnusedCollections deletes when it runs
\* to its end; creationTimeListed: the listing carries creation_time
unusedCollections(existing, currentCollection, creationTimeListed) ==
  {n \in DOMAIN existing :
     /\ n # currentCollection
     /\ ~isSystemCollection(n)
     /\ creationTimeListed
     /\ existing[n].old}

\* cleanupUnusedCollections(job.data.pdfId), then the handler returns; an
\* error of getCollections or deleteCollection ends the loop early and is
\* only logged
Cleanup ==
  /\ wpc = "cleaning"
  /\ \E creationTimeListed \in BOOLEAN :
       \E deleted \in SUBSET unusedCollections(vectorCollections, job.pdfId,
                                               creationTimeListed) :
         vectorCollections' =
           [n \in DOMAIN vectorCollections \ deleted |-> vectorCollections[n]]
  /\ finish(completed(chunkCount))
  /\ UNCHANGED << variant, apiKeySet, pdfCollections, pc, req, locals,
                  retrievalCalls, generationCalls, generationRequest, generated,
                  response, uiVars, pendingUploads, uploadResponse, queue,
                  services, healthResponse >>

\* time passes: every collection is now older than 24 hours
DayPasses ==
  /\ \E n \in DOMAIN vectorCollections : ~vectorCollections[n].old
  /\ vectorCollections' = [n \in DOMAIN vectorCollections |-> [old |-> TRUE]]
  /\ UNCHANGED << variant, apiKeySet, pdfCollections, pc, req, locals,
                  retrievalCalls, generationCalls, generationRequest, generated,
                  response, uiVars, pendingUploads, uploadResponse, queue,
                  jobResult, workerVars, services, healthResponse >>

\* uploads, the worker, the clock and health requests; no chat request
IndexNext ==
  \/ UploadPdf
  \/ Health
  \/ JobStart
  \/ StoreBatch
  \/ Cleanup
  \/ DayPasses

\* the server and the worker started, the upload requests still to come
IndexStart ==
  /\ ServerInit
  /\ apiKeySet
  /\ UIUnmounted
  /\ IndexInit
  /\ pendingUploads \in SeqsUpTo(UploadFiles, MaxUploads)

IndexSpec == IndexStart /\ [][IndexNext]_vars

(***************************************************************************)
(* POST /chat                                                              *)
(***************************************************************************)

depthOf(request) == IF request.depth = "" THEN "normal" ELSE request.depth

\* const pdfType = pdfData.type || 'general' (server.js)
pdfTypeOf(collections, pdfId) ==
  IF "type" \in DOMAIN collections[pdfId] THEN collections[pdfId].type ELSE "general"

\* a handler that answers small talk before it looks at the document ID
ChatRequest_SmallTalkFirst ==
  /\ pc = "idle"
  /\ \E query \in Queries, pdfId \in RequestPdfIds, depth \in RequestDepths :
       /\ req' = [query |-> query, pdfId |-> pdfId, depth |-> depth]
       /\ IF query = ""
          THEN /\ response' = errorResponse(400, "Query parameter is required")
               /\ pc' = "done"
               /\ retrievalCalls' = 0
          ELSE IF isSmallTalk(query)
          THEN /\ response' = jsonResponse(getSmallTalkResponse(variant, query), << >>, 0)
               /\ pc' = "done"
               /\ retrievalCalls' = 0
          ELSE IF pdfId = "" \/ pdfId \notin DOMAIN pdfCollections
          THEN /\ response' = errorResponse(400, "Valid PDF ID is required")
               /\ pc' = "done"
               /\ retrievalCalls' = 0
          ELSE /\ response' = NoResponse
               /\ pc' = "retrieving"
               /\ retrievalCalls' = 1
  /\ generationCalls' = 0
  /\ generationRequest' = NoGeneration
  /\ generated' = << >>
  /\ clearLocals
  /\ UNCHANGED << variant, apiKeySet, pdfCollections, uiVars, indexVars >>

\* the request arrives: validation and the small-talk shortcut, then the
\* retriever is invoked
ChatRequest ==
  /\ pc = "idle"
  /\ \E query \in Queries, pdfId \in RequestPdfIds, depth \in RequestDepths :
       /\ req' = [query |-> query, pdfId |-> pdfId, depth |-> depth]
       /\ IF query = ""
          THEN /\ response' = errorResponse(400, "Query parameter is required")
               /\ pc' = "done"
               /\ retrievalCalls' = 0
          ELSE IF pdfId = "" \/ pdfId \notin DOMAIN pdfCollections
          THEN /\ response' = errorResponse(400, "Valid PDF ID is required")
               /\ pc' = "done"
               /\ retrievalCalls' = 0
          ELSE IF isSmallTalk(query)
          THEN /\ response' = jsonResponse(getSmallTalkResponse(variant, query), << >>, 0)
               /\ pc' = "done"
               /\ retrievalCalls' = 0
          ELSE /\ response' = NoResponse
               /\ pc' = "retrieving"
               /\ retrievalCalls' = 1
  /\ generationCalls' = 0
  /\ generationRequest' = NoGeneration
  /\ generated' = << >>
  /\ clearLocals
  /\ UNCHANGED << variant, apiKeySet, pdfCollections, uiVars, indexVars >>

\* the text the ranker is given: the cleaned text in the older server, the
\* joined chunks in server.js
rankerInput(v, content, cleaned) == IF v = "server" THEN content ELSE cleaned

\* the retriever returned: the not-found answer for no chunk; otherwise
\* the page references and the ranked context are computed and the answer
\* is requested (without an API key the catch block answers at once)
RetrieveReturn ==
  /\ pc = "retrieving"
  /\ \E chunks \in SeqsUpTo(ChunkTexts, MaxChunks) :
       /\ Len(chunks) <= retrieverK(variant, depthOf(req))
       /\ results' = chunks
       /\ IF Len(chunks) = 0
          THEN /\ response' = jsonResponse(notFoundAnswer(variant, req.query), << >>, 0)
               /\ pc' = "done"
               /\ generationCalls' = 0
               /\ generationRequest' = NoGeneration
               /\ relevantContent' = ""
               /\ pageReferences' = << >>
               /\ cleanedContext' = ""
               /\ scoredSentences' = << >>
               /\ relevantSentences' = << >>
               /\ filteredContext' = ""
          ELSE LET content == join(chunks, " ")
                   pdfType == pdfTypeOf(pdfCollections, req.pdfId)
               IN  /\ relevantContent' = content
                   /\ pageReferences' = extractPageNumbers(content)
                   /\ cleanedContext' =
                        IF variant = "server" THEN "" ELSE cleanContext(content)
                   /\ scoredSentences' =
                        scoredSentencesOf(variant, rankerInput(variant, content, cleanedContext'),
                                          req.query, pdfType)
                   /\ relevantSentences' = relevantSentencesOf(scoredSentences')
                   /\ filteredContext' = contextOf(variant, relevantSentences')
                   /\ IF apiKeySet
                      THEN /\ generationCalls' = 1
                           /\ generationRequest' =
                                generationRequestOf(variant, depthOf(req))
                           /\ pc' = "generating"
                           /\ response' = NoResponse
                      ELSE /\ generationCalls' = 0
                           /\ generationRequest' = NoGeneration
                           /\ pc' = "done"
                           /\ response' =
                                jsonResponse(
                                  fallbackAnswer(variant, req.query, pageReferences'),
                                  pageReferences', Len(chunks))
  /\ UNCHANGED << indexVars, variant, apiKeySet, pdfCollections, req, retrievalCalls,
                  generated, uiVars >>

\* a catch block that also forgets the documents
RetrieveFail_ForgetsDocuments ==
  /\ pc = "retrieving"
  /\ response' = errorResponse(500, "Internal server error")
  /\ pc' = "done"
  /\ pdfCollections' = << >>
  /\ UNCHANGED << indexVars, variant, apiKeySet, req, locals, retrievalCalls,
                  generationCalls, generationRequest, generated, uiVars >>

\* the embeddings, the vector store or the retriever threw: the handler's
\* catch block answers 500
RetrieveFail ==
  /\ pc = "retrieving"
  /\ response' = errorResponse(500, "Internal server error")
  /\ pc' = "done"
  /\ UNCHANGED << indexVars, variant, apiKeySet, pdfCollections, req, locals, retrievalCalls,
                  generationCalls, generationRequest, generated, uiVars >>

\* the first generation call returned: server.js answers; the older server
\* retries a non-answer once
GenerateReturn ==
  /\ pc = "generating"
  /\ \E text \in GeneratedTexts(pageRefTextOf(pageReferences)) :
       /\ generated' = Append(generated, text)
       /\ IF variant = "older" /\ isNonAnswer(text)
          THEN /\ generationCalls' = generationCalls + 1
               /\ pc' = "retrying"
               /\ response' = NoResponse
          ELSE /\ generationCalls' = generationCalls
               /\ pc' = "done"
               /\ response' =
                    jsonResponse(
                      withPageReferences(variant, text, pageRefTextOf(pageReferences)),
                      pageReferences, Len(results))
  /\ UNCHANGED << indexVars, variant, apiKeySet, pdfCollections, req, locals, retrievalCalls,
                  generationRequest, uiVars >>

\* a retry that is repeated while its text is a non-answer
RetryReturn_UntilAnswer ==
  /\ pc = "retrying"
  /\ \E text \in GeneratedTexts(pageRefTextOf(pageReferences)) :
       /\ generated' = << generated[1], text >>
       /\ IF isNonAnswer(text)
          THEN /\ generationCalls' = generationCalls + 1
               /\ pc' = "retrying"
               /\ response' = NoResponse
          ELSE /\ generationCalls' = generationCalls
               /\ pc' = "done"
               /\ response' =
                    jsonResponse(
                      withPageReferences(variant, text, pageRefTextOf(pageReferences)),
                      pageReferences, Len(results))
  /\ UNCHANGED << indexVars, variant, apiKeySet, pdfCollections, req, locals, retrievalCalls,
                  generationRequest, uiVars >>

\* the retry returned (older server): its text is the answer
RetryReturn ==
  /\ pc = "retrying"
  /\ \E text \in GeneratedTexts(pageRefTextOf(pageReferences)) :
       /\ generated' = Append(generated, text)
       /\ response' =
            jsonResponse(withPageReferences(variant, text, pageRefTextOf(pageReferences)),
                         pageReferences, Len(results))
  /\ pc' = "done"
  /\ UNCHANGED << indexVars, variant, apiKeySet, pdfCollections, req, locals, retrievalCalls,
                  generationCalls, generationRequest, uiVars >>

\* a generation call threw: the catch block's templated answer is sent
GenerateFail ==
  /\ pc \in {"generating", "retrying"}
  /\ response' =
       jsonResponse(fallbackAnswer(variant, req.query, pageReferences),
                    pageReferences, Len(results))
  /\ pc' = "done"
  /\ UNCHANGED << indexVars, variant, apiKeySet, pdfCollections, req, locals, retrievalCalls,
                  generationCalls, generationRequest, generated, uiVars >>

\* the response has been sent and the handler returned: its locals are gone
ChatReturn ==
  /\ pc = "done"
  /\ pc' = "idle"
  /\ req' = NoRequest
  /\ response' = NoResponse
  /\ retrievalCalls' = 0
  /\ generationCalls' = 0
  /\ generationRequest' = NoGeneration
  /\ generated' = << >>
  /\ clearLocals
  /\ UNCHANGED << variant, apiKeySet, pdfCollections, uiVars, indexVars >>

(***************************************************************************)
(* The chat component of the page                                          *)
(***************************************************************************)

\* the most messages the chat holds in the model
MaxMessages == 4

\* what the user can have typed into the input
UserTexts ==
  {"", "  ", "what is paris", "A Detailed answer", "go deeper step by step"}

\* how the chat request of the component can end: a response with or
\* without an answer text, a response with an error status, no response
ChatOutcomes ==
  { [kind |-> "ok", results |-> "Paris is the capital of France.",
     pageReferences |-> << 3 >>, error |-> ""],
    [kind |-> "ok", results |-> "", pageReferences |-> << >>, error |-> ""],
    [kind |-> "status", results |-> "", pageReferences |-> << >>,
     error |-> "Internal server error"],
    [kind |-> "network", results |-> "", pageReferences |-> << >>,
     error |-> "Network Error"] }

\* the fresh component: useState initial values, currentPdfId '' in the page
UIInit ==
  /\ ui \in {"five-depth", "two-depth"}
  /\ currentPdfId = ""
  /\ responseDepth = "normal"
  /\ conversationDepth = "normal"
  /\ inputMessage = ""
  /\ isLoading = FALSE
  /\ messages = << >>
  /\ sent = NothingSent

\* the depth of a send in part_001: the selected depth unless the text asks
requestedDepthFive(text, selected) ==
  LET userMessageLower == toLowerCase(text)
  IN  IF \/ includes(userMessageLower, "step by step")
         \/ includes(userMessageLower, "step-by-step")
      THEN "step-by-step"
      ELSE IF \/ includes(userMessageLower, "more depth")
              \/ includes(userMessageLower, "go deeper")
      THEN "deeper"
      ELSE IF \/ includes(userMessageLower, "in depth")
              \/ includes(userMessageLower, "detailed")
      THEN "deep"
      ELSE IF \/ includes(userMessageLower, "simple")
              \/ includes(userMessageLower, "easy")
              \/ includes(userMessageLower, "explain like")
      THEN "simple"
      ELSE selected

\* the depth of a send in part_002: one step up from the conversation's
\* depth when the text asks for more, the conversation's depth otherwise
requestedDepthTwo(text, current) ==
  LET userMessageLower == toLowerCase(text)
  IN  IF \/ includes(userMessageLower, "more depth")
         \/ includes(userMessageLower, "go deeper")
         \/ includes(userMessageLower, "in depth")
         \/ includes(userMessageLower, "detailed")
      THEN (IF current = "normal" THEN "deep" ELSE "deeper")
      ELSE current

userMessage(text) == [content |-> text, isUser |-> TRUE, pageReferences |-> << >>]

\* the message the chat shows for the outcome of the request
aiMessage(outcome) ==
  IF outcome.kind = "ok"
  THEN [content |-> IF outcome.results = "" THEN "No response received"
                    ELSE outcome.results,
        isUser |-> FALSE, pageReferences |-> outcome.pageReferences]
  ELSE [content |-> "Sorry, I encountered an error: " \o outcome.error,
        isUser |-> FALSE, pageReferences |-> << >>]

serverVars ==
  << variant, apiKeySet, pdfCollections, pc, req, locals, retrievalCalls,
     generationCalls, generationRequest, generated, response, indexVars >>

\* the page hands the component the uploaded document
handlePdfUpload ==
  /\ ui # "none"
  /\ \E pdfId \in PdfIds \ {currentPdfId} : currentPdfId' = pdfId
  /\ UNCHANGED << ui, responseDepth, conversationDepth, inputMessage, isLoading,
                  messages, sent >>
  /\ UNCHANGED serverVars

\* the user types; the input is disabled while loading or without a document
setInputMessage ==
  /\ ui # "none"
  /\ ~isLoading
  /\ currentPdfId # ""
  /\ \E text \in UserTexts \ {inputMessage} : inputMessage' = text
  /\ UNCHANGED << ui, currentPdfId, responseDepth, conversationDepth, isLoading,
                  messages, sent >>
  /\ UNCHANGED serverVars

\* the depth selector of part_001
setResponseDepth ==
  /\ ui = "five-depth"
  /\ \E depth \in DepthLevels \ {responseDepth} : responseDepth' = depth
  /\ UNCHANGED << ui, currentPdfId, conversationDepth, inputMessage, isLoading,
                  messages, sent >>
  /\ UNCHANGED serverVars

\* handleSendMessage up to the request: the depth is chosen, the user
\* message is shown, the input is cleared and the request leaves
handleSendMessage ==
  /\ ui # "none"
  /\ trim(inputMessage) # ""
  /\ ~isLoading
  /\ currentPdfId # ""
  /\ Len(messages) + 2 <= MaxMessages
  /\ LET depth == IF ui = "five-depth"
                  THEN requestedDepthFive(inputMessage, responseDepth)
                  ELSE requestedDepthTwo(inputMessage, conversationDepth)
     IN  /\ conversationDepth' = IF ui = "two-depth" THEN depth ELSE conversationDepth
         /\ sent' = [query |-> inputMessage, pdfId |-> currentPdfId, depth |-> depth]
  /\ messages' = Append(messages, userMessage(inputMessage))
  /\ inputMessage' = ""
  /\ isLoading' = TRUE
  /\ UNCHANGED << ui, currentPdfId, responseDepth >>
  /\ UNCHANGED serverVars

\* a continuation that shows nothing when the request failed
ChatResponse_SilentOnError ==
  /\ isLoading
  /\ \E outcome \in ChatOutcomes :
       /\ messages' = IF outcome.kind = "ok" THEN Append(messages, aiMessage(outcome))
                      ELSE messages
       /\ conversationDepth' =
            IF ui = "two-depth" /\ outcome.kind = "ok" /\ sent.depth # "normal"
            THEN "normal" ELSE conversationDepth
  /\ isLoading' = FALSE
  /\ sent' = NothingSent
  /\ UNCHANGED << ui, currentPdfId, responseDepth, inputMessage >>
  /\ UNCHANGED serverVars

\* handleSendMessage after the request: the answer or the error is shown,
\* part_002 resets its depth after an answer, loading ends
ChatResponse ==
  /\ isLoading
  /\ \E outcome \in ChatOutcomes :
       /\ messages' = Append(messages, aiMessage(outcome))
       /\ conversationDepth' =
            IF ui = "two-depth" /\ outcome.kind = "ok" /\ sent.depth # "normal"
            THEN "normal" ELSE conversationDepth
  /\ isLoading' = FALSE
  /\ sent' = NothingSent
  /\ UNCHANGED << ui, currentPdfId, responseDepth, inputMessage >>
  /\ UNCHANGED serverVars

clearChat ==
  /\ ui # "none"
  /\ messages # << >>
  /\ messages' = << >>
  /\ UNCHANGED << ui, currentPdfId, responseDepth, conversationDepth, inputMessage,
                  isLoading, sent >>
  /\ UNCHANGED serverVars

\* the steps of the chat component; the server is seen through ChatOutcomes
UINext ==
  \/ handlePdfUpload
  \/ setInputMessage
  \/ setResponseDepth
  \/ handleSendMessage
  \/ ChatResponse
  \/ clearChat

\* the page opened against a running server
UIStart ==
  /\ ServerInit
  /\ variant = "server"
  /\ apiKeySet
  /\ UIInit
  /\ IndexInit
  /\ pendingUploads = << >>

UISpec == UIStart /\ [][UINext]_vars

\* a request that was sent ends, with a response or with an error
UIFairSpec == UISpec /\ WF_vars(ChatResponse)

Next ==
  \/ UploadPdf
  \/ ChatRequest
  \/ RetrieveReturn
  \/ RetrieveFail
  \/ GenerateReturn
  \/ RetryReturn
  \/ GenerateFail
  \/ ChatReturn

Spec == Init /\ [][Next]_vars

(***************************************************************************)
(* Properties                                                              *)
(***************************************************************************)

\* retrieval has just returned chunks for the request at hand: its page
\* references and its ranking are computed, and the answer is being
\* generated or, without an API key, was sent at once
Ranked ==
  /\ results # << >>
  /\ pc = "generating" \/ (pc = "done" /\ generationCalls = 0)

\* the text the ranker was given for this request
rankInput == rankerInput(variant, relevantContent, cleanedContext)

\* m is a page marker: "[Page ", one digit or more, "]"
IsPageMarker(m) ==
  /\ Len(m) >= 8
  /\ SubSeq(m, 1, 6) = "[Page "
  /\ CharAt(m, Len(m)) = "]"
  /\ \A k \in 7..(Len(m) - 1) : IsDigit(CharAt(m, k))

\* the integers of the page markers that occur in a text
pagesMarkedIn(text) ==
  LET opens == {j \in 1..Len(text) : CharAt(text, j) = "["}
      closes == {j \in 1..Len(text) : CharAt(text, j) = "]"}
  IN  {parseInt(SubSeq(text, pr[1] + 6, pr[2] - 1)) :
         pr \in {x \in opens \X closes : x[1] < x[2] /\ IsPageMarker(SubSeq(text, x[1], x[2]))}}

StrictlyAscending(arr) == \A i \in 1..(Len(arr) - 1) : arr[i] < arr[i + 1]

\* C1: the list extractPageNumbers returns is strictly ascending, so free of
\* duplicates, and each of its values is the integer of a [Page N] marker
\* of the input
C1_PagesAscendingFromMarkers ==
  Ranked =>
    /\ StrictlyAscending(pageReferences)
    /\ \A i \in 1..Len(pageReferences) :
         pageReferences[i] \in pagesMarkedIn(relevantContent)

\* C1 witness: several pages were extracted from an input whose markers
\* were out of order or repeated
C1_Witness ==
  /\ Ranked
  /\ Len(pageReferences) >= 2
  /\ execAll(relevantContent, 1) # pageReferences

\* C2: every page reference of a chat answer is the page of a marker that
\* one of the retrieved chunks holds by itself
C2_PagesCarriedByAChunk ==
  (pc = "done" /\ response.status = 200) =>
    \A i \in 1..Len(response.pageReferences) :
      \E k \in 1..Len(results) : response.pageReferences[i] \in pagesMarkedIn(results[k])

\* C3: cleaning the cleaned context again changes nothing
C3_CleanIdempotent ==
  (Ranked /\ variant = "older") => cleanContext(cleanedContext) = cleanedContext

\* the score a kept candidate gets for the request at hand
requestScore(sentence) ==
  scoreOf(variant, sentence, req.query, pdfTypeOf(pdfCollections, req.pdfId))

\* the candidates of the ranker's input
candidates == splitSentences(rankInput)

IsCandidate(sentence) == \E k \in 1..Len(candidates) : candidates[k] = sentence

\* C4: the ranker's result is the join of at most K of the candidate
\* sentences, each of them with a score above zero
C4_AtMostKPositiveSentences ==
  Ranked =>
    \E n \in 0..TopSentences(variant) :
      /\ n <= Len(relevantSentences)
      /\ filteredContext = join(SubSeq(relevantSentences, 1, n), ". ") \o "."
      /\ \A i \in 1..n :
           /\ IsCandidate(relevantSentences[i])
           /\ requestScore(relevantSentences[i]) > 0

\* C4 witness: more than K sentences had a score, and the cut was made
C4_Witness ==
  /\ Ranked
  /\ variant = "server"
  /\ Len(relevantSentences) > TopSentences(variant)
  /\ filteredContext # "."

\* C5: when no candidate has a score above zero the ranker's result is the
\* empty string
C5_EmptyWhenNothingScores ==
  (Ranked /\ \A k \in 1..Len(scoredSentences) : scoredSentences[k].score <= 0)
    => filteredContext = ""

\* the scored candidates with a score above zero, in input order
positives == SelectSeq(scoredSentences, hasScore)

\* the place of the p-th positive candidate in a stable descending order:
\* after those of a higher score and those of the same score that precede it
stableRank(p) ==
  1 + Cardinality({q \in 1..Len(positives) :
                     \/ positives[q].score > positives[p].score
                     \/ positives[q].score = positives[p].score /\ q < p})

\* C6: the sentences are ranked by descending score, and sentences of
\* equal score keep the order they have in the input
C6_RankingStable ==
  Ranked =>
    /\ Len(relevantSentences) = Len(positives)
    /\ \A p \in 1..Len(positives) :
         relevantSentences[stableRank(p)] = positives[p].sentence
    /\ filteredContext =
         join(SubSeq(relevantSentences, 1,
                     IF Len(positives) < TopSentences(variant)
                     THEN Len(positives) ELSE TopSentences(variant)), ". ") \o "."

\* C6 witness: two different sentences tie, and a sentence of a lower
\* score precedes one of a higher score in the input
C6_Witness ==
  /\ Ranked
  /\ \E p, q \in 1..Len(positives) :
       /\ p < q
       /\ positives[p].score = positives[q].score
       /\ positives[p].sentence # positives[q].sentence
  /\ \E p, q \in 1..Len(positives) :
       p < q /\ positives[p].score < positives[q].score

IsKept(sentence) == \E k \in 1..Len(scoredSentences) : scoredSentences[k].sentence = sentence

\* C7: a candidate is kept for scoring exactly when its trimmed length is
\* 10 or more
C7_KeptFromTenCharacters ==
  Ranked =>
    \A k \in 1..Len(candidates) :
      IsKept(candidates[k]) <=> Len(trim(candidates[k])) >= 10

\* the keywords of the request's query: lowercased, split at whitespace
requestKeywords == splitWhitespace(toLowerCase(req.query), 1)

\* 3 points for each keyword of more than 3 characters found in the sentence
keywordPointsFor(lowerSentence) ==
  3 * Cardinality({i \in 1..Len(requestKeywords) :
                     /\ Len(requestKeywords[i]) > 3
                     /\ includes(lowerSentence, requestKeywords[i])})

\* 10 points for the whole query found in the sentence
phrasePointsFor(lowerSentence) ==
  IF includes(lowerSentence, toLowerCase(req.query)) THEN 10 ELSE 0

\* the score as the claim states it: 15 points for "<query> is" or
\* "<query> are" anywhere in the sentence
claimedScore(sentence) ==
  LET ls == toLowerCase(sentence)
      lq == toLowerCase(req.query)
  IN  keywordPointsFor(ls) + phrasePointsFor(ls)
      + (IF \/ includes(ls, lq \o " is")
            \/ includes(ls, lq \o " are")
            \/ includes(ls, "is " \o lq)
            \/ includes(ls, "are " \o lq)
            \/ includes(ls, "defined as")
            \/ includes(ls, "refers to")
         THEN 15 ELSE 0)

\* the score as amended: 15 points for "<query> is" or "<query> are" at
\* the start of the sentence only
amendedScore(sentence) ==
  LET ls == toLowerCase(sentence)
      lq == toLowerCase(req.query)
  IN  keywordPointsFor(ls) + phrasePointsFor(ls)
      + (IF \/ startsWith(ls, lq \o " is")
            \/ startsWith(ls, lq \o " are")
            \/ includes(ls, "is " \o lq)
            \/ includes(ls, "are " \o lq)
            \/ includes(ls, "defined as")
            \/ includes(ls, "refers to")
         THEN 15 ELSE 0)

ScoredInServer ==
  /\ Ranked
  /\ variant = "server"
  /\ pdfTypeOf(pdfCollections, req.pdfId) # "qa"

\* C8 as stated: in server.js, for a document that is not "qa", the score
\* is 3 per keyword of more than 3 characters found, plus 10 for the whole
\* query, plus 15 when the sentence contains "<query> is", "<query> are",
\* "is <query>", "are <query>", "defined as" or "refers to"
C8_ScoreAsClaimed ==
  ScoredInServer =>
    \A k \in 1..Len(scoredSentences) :
      scoredSentences[k].score = claimedScore(scoredSentences[k].sentence)

\* C8 amended: as stated, but "<query> is" and "<query> are" earn the 15
\* points only at the start of the sentence
C8_ScoreAmended ==
  ScoredInServer =>
    \A k \in 1..Len(scoredSentences) :
      scoredSentences[k].score = amendedScore(scoredSentences[k].sentence)

\* C8 witness: one scored sentence starts with "<query> is" and another
\* holds it further on, and the query has a keyword too short to count
C8_Witness ==
  /\ ScoredInServer
  /\ \E k \in 1..Len(scoredSentences) :
       startsWith(toLowerCase(scoredSentences[k].sentence), toLowerCase(req.query) \o " is")
  /\ \E k \in 1..Len(scoredSentences) :
       /\ ~startsWith(toLowerCase(scoredSentences[k].sentence), toLowerCase(req.query) \o " is")
       /\ includes(toLowerCase(scoredSentences[k].sentence), toLowerCase(req.query) \o " is")

\* the request at hand got past the validation of its query and its pdfId
Validated == pc # "idle" /\ response.status # 400

SmallTalkExamples == {"Hello", "hi", "Thanks!", "Who are you?"}

\* C9: each of "Hello", "hi", "Thanks!" and "Who are you?" matches exactly
\* one pattern, and a request with it and a registered document is answered
\* without retrieval, with no page reference and a count of 0
C9_ExamplesAreSmallTalk ==
  (Validated /\ req.query \in SmallTalkExamples) =>
    /\ Cardinality(matchingPatterns(req.query)) = 1
    /\ pc = "done"
    /\ response.status = 200
    /\ response.pageReferences = << >>
    /\ response.count = 0
    /\ retrievalCalls = 0

SmallTalkTexts(query) ==
  {smallTalkTemplate(variant, k, query) : k \in 1..NumPatterns} \cup {DefaultSmallTalk}

\* C10: a validated request whose query matches a small-talk pattern is
\* answered with a canned text, no page reference and a count of 0, and
\* neither the retriever nor the generation model is called for it
C10_SmallTalkSkipsRetrieval ==
  (Validated /\ matchingPatterns(req.query) # {}) =>
    /\ pc = "done"
    /\ response.status = 200
    /\ response.results \in SmallTalkTexts(req.query)
    /\ response.pageReferences = << >>
    /\ response.count = 0
    /\ retrievalCalls = 0
    /\ generationCalls = 0

\* C10 witness: "Thanks!" was answered as small talk
C10_Witness ==
  /\ pc = "done"
  /\ req.query = "Thanks!"
  /\ response.status = 200
  /\ retrievalCalls = 0

\* the first generation call of the request at hand has returned
FirstTextReturned == Len(generated) >= 1

\* the text is below the minimum length or holds a refusal phrase
IsShortOrRefusal(text) ==
  \/ Len(text) < 50
  \/ includes(text, "I couldn't find")
  \/ includes(text, "the document doesn't contain")

\* C11: in both servers, once the first generation call has returned, a
\* second (retry) call has been issued exactly when the first text is below
\* 50 characters or holds a refusal phrase
C11_RetryOnNonAnswer ==
  FirstTextReturned =>
    IF IsShortOrRefusal(generated[1])
    THEN generationCalls = 2
    ELSE generationCalls = 1

\* the citation fragment of the request at hand
pageRefText == pageRefTextOf(pageReferences)

\* C12: a chat request issues at most two generation calls, and after the
\* retry has returned the answer sent is the retry's text, with or without
\* the citation, whatever that text is
C12_AtMostOneRetry ==
  /\ generationCalls <= 2
  /\ Len(generated) <= 2
  /\ (pc = "done" /\ Len(generated) = 2) =>
       /\ response.status = 200
       /\ response.results \in {generated[2], generated[2] \o " " \o pageRefText}

\* C12 witness: the retry returned a text that is again too short, and it
\* was sent
C12_Witness ==
  /\ pc = "done"
  /\ generationCalls = 2
  /\ Len(generated) = 2
  /\ IsShortOrRefusal(generated[2])
  /\ response.status = 200

\* every generation call of the request returned, and the answer was sent
Generated ==
  /\ pc = "done"
  /\ generated # << >>
  /\ Len(generated) = generationCalls

\* C13: after a successful generation the answer sent is the generated text
\* followed by the citation fragment if the page references are non-empty,
\* the text does not hold the fragment and the text is not a "not found"
\* answer; otherwise it is the generated text alone
C13_CitationAppendedUnlessNotFound ==
  Generated =>
    LET text == generated[Len(generated)]
    IN  IF /\ pageReferences # << >>
           /\ ~includes(text, pageRefText)
           /\ ~includes(text, "I couldn't find")
        THEN response.results \in
               {text \o " " \o pageRefText, text \o "\n\n" \o pageRefText}
        ELSE response.results = text

\* the assembler's catch block answered: the API key is missing or a
\* generation call was issued and did not return
Caught ==
  /\ pc = "done"
  /\ results # << >>
  /\ ~apiKeySet \/ Len(generated) < generationCalls

\* C14: when the API key is missing or a generation call raises, the
\* request is answered with status 200 by a text that holds the query and,
\* when there are page references, the citation fragment
C14_FallbackAnswersTheRequest ==
  Caught =>
    /\ response.status = 200
    /\ includes(response.results, req.query)
    /\ pageReferences # << >> => includes(response.results, pageRefText)
    /\ response.pageReferences = pageReferences

\* C14 witness: the retry raised an error for a request with page
\* references, and the request was answered
C14_Witness ==
  /\ Caught
  /\ generationCalls = 2
  /\ Len(generated) = 1
  /\ pageReferences # << >>
  /\ response.status = 200

\* the retriever returned no chunk and the handler answered
NothingRetrieved ==
  /\ pc = "done"
  /\ retrievalCalls = 1
  /\ results = << >>
  /\ response.status # 500

\* C15: when the retriever returns no chunk the request is answered with
\* status 200 by a "couldn't find" text that holds the query, no page
\* reference and a count of 0, and no generation call is made
C15_NotFoundAnswer ==
  NothingRetrieved =>
    /\ response.status = 200
    /\ includes(response.results, "couldn't find")
    /\ includes(response.results, req.query)
    /\ response.pageReferences = << >>
    /\ response.count = 0
    /\ generationCalls = 0

\* C15 witness: nothing was retrieved for the query "paris"
C15_Witness ==
  /\ NothingRetrieved
  /\ req.query = "paris"
  /\ response.status = 200

\* the generation model of the request at hand has been configured
GenerationBuilt == generationRequest # NoGeneration

\* the parameters of depth normal
Conservative == generationConfig(variant, "normal")

\* each parameter is above the conservative one
IsScaledUp(config) ==
  /\ config.temperature > Conservative.temperature
  /\ config.topK > Conservative.topK
  /\ config.topP > Conservative.topP
  /\ config.maxOutputTokens > Conservative.maxOutputTokens

\* C16: the generation parameters of a request with depth deep or deeper
\* are each above the conservative ones, and those of a request with depth
\* normal, simple or step-by-step are the conservative ones
C16_ParametersByDepth ==
  GenerationBuilt =>
    IF depthOf(req) \in {"deep", "deeper"}
    THEN IsScaledUp(generationRequest.config)
    ELSE generationRequest.config = Conservative

\* C17: in server.js the instruction of a generation request is the
\* fragment of the request's depth and of no other of the five depths, and
\* a request without a depth is given the instruction and the parameters of
\* depth normal
C17_FiveDistinctInstructions ==
  (variant = "server" /\ GenerationBuilt) =>
    /\ \A d \in DepthLevels :
         generationRequest.instruction = depthInstruction("server", d)
           <=> d = depthOf(req)
    /\ req.depth = "" =>
         generationRequest = generationRequestOf("server", "normal")

\* C17 witness: a step-by-step request of server.js is being generated
C17_Witness ==
  /\ variant = "server"
  /\ pc = "generating"
  /\ req.depth = "step-by-step"
  /\ generationRequest.instruction # depthInstruction("server", "simple")

\* the depth the text and the selected depth of a send determine; part_002
\* has no depth control, its selection is the initial "normal"
ownDepth(text, selected) ==
  IF ui = "five-depth"
  THEN requestedDepthFive(text, selected)
  ELSE requestedDepthTwo(text, "normal")

\* C18: the depth a send of the chat component carries is determined by
\* the text of that send and the depth selected at that moment, whatever
\* was sent before and however it ended
C18_DepthRequestScoped ==
  [][(~isLoading /\ isLoading') =>
       sent'.depth = ownDepth(sent'.query, responseDepth)]_vars

\* C19: no step of the /chat handler changes pdfCollections
C19_ChatLeavesCollections ==
  [][pc' # pc => pdfCollections' = pdfCollections]_vars

\* C19 witness: a chat request for a registered document ended in a 500
C19_Witness ==
  /\ pc = "done"
  /\ response.status = 500
  /\ req.pdfId \in DOMAIN pdfCollections

\* C20: the text given to the ranker is the cleaner's output for the joined
\* chunks, and no sentence the ranker scores holds a [Page N] marker
C20_RankerGetsCleanedText ==
  Ranked =>
    /\ rankInput = cleanContext(relevantContent)
    /\ \A i \in 1..Len(scoredSentences) :
         pagesMarkedIn(scoredSentences[i].sentence) = {}

\* C21: every value extractPageNumbers returns is greater than zero
C21_PagesPositive ==
  Ranked => \A i \in 1..Len(pageReferences) : pageReferences[i] > 0

\* the request at hand was answered by the small-talk shortcut
AnsweredAsSmallTalk ==
  /\ pc = "done"
  /\ response.status = 200
  /\ retrievalCalls = 0

ConversationalPhrases ==
  {"hi", "hello", "hey", "greetings", "how are you", "thanks", "thank you", "thx",
   "good morning", "good afternoon", "good evening", "what's up", "sup",
   "who are you"}

\* C23: a query is answered as small talk only if, trimmed and case-folded,
\* it begins with one of the conversational phrases
C23_SmallTalkBeginsWithPhrase ==
  AnsweredAsSmallTalk =>
    \E phrase \in ConversationalPhrases :
      startsWith(toLowerCase(trim(req.query)), phrase)

\* a document ID no upload registers
NeverRegistered == {"", "unknown"}

\* C28: a request without a query is refused for its query whatever its
\* document ID; a request with a query and a missing or unregistered
\* document ID is refused for the ID, small talk or not, and nothing is
\* retrieved for it
C28_ValidationOrder ==
  pc # "idle" =>
    /\ req.query = "" =>
         response = errorResponse(400, "Query parameter is required")
    /\ (req.query # "" /\ req.pdfId \in NeverRegistered) =>
         /\ response = errorResponse(400, "Valid PDF ID is required")
         /\ retrievalCalls = 0

\* C28 witness: "Hello" without a document ID was refused for the ID
C28_Witness ==
  /\ pc = "done"
  /\ req.query = "Hello"
  /\ req.pdfId = ""
  /\ response.status = 400
  /\ response.error = "Valid PDF ID is required"

C24_AssistantFollowsUser ==
  \A i \in 1..Len(messages) :
    ~messages[i].isUser => (i > 1 /\ messages[i - 1].isUser)

\* the step appends one message to the list
AppendsOne == Len(messages') = Len(messages) + 1 /\ SubSeq(messages', 1, Len(messages)) = messages

\* the step is an accepted submit: loading begins
SubmitStep == ~isLoading /\ isLoading'

\* the step ends a request: loading ends
EndStep == isLoading /\ ~isLoading'

\* C25: a submit is accepted only with a non-blank input, a selected
\* document and no request loading, and it appends the user message of the
\* input; assistant messages are appended only by the step that ends
\* loading, which appends exactly one; and loading always ends
C25_SubmitLifecycle ==
  /\ [][SubmitStep =>
          /\ trim(inputMessage) # ""
          /\ currentPdfId # ""
          /\ AppendsOne
          /\ messages'[Len(messages')] = userMessage(inputMessage)]_vars
  /\ [][EndStep =>
          /\ AppendsOne
          /\ ~messages'[Len(messages')].isUser]_vars
  /\ [][(Len(messages') > Len(messages) /\ ~messages'[Len(messages')].isUser) =>
          EndStep]_vars
  /\ [][(Len(messages') > Len(messages) /\ messages'[Len(messages')].isUser) =>
          SubmitStep]_vars
  /\ (isLoading ~> ~isLoading)

\* C25 witness: a request failed, its error text was appended after the
\* user message and loading ended
C25_Witness ==
  /\ ~isLoading
  /\ Len(messages) = 2
  /\ messages[1].isUser
  /\ messages[2] = aiMessage(CHOOSE o \in ChatOutcomes : o.kind = "network")

(***************************************************************************)
(* Uploads, the worker and health requests (IndexSpec)                     *)
(***************************************************************************)

\* the earlier step was the handler of an upload request
UploadStep == pendingUploads' # pendingUploads

\* C27: an upload adds one entry, for a fresh identifier, and only with the
\* job enqueued; an upload whose text extraction or enqueue failed answers
\* 500 and leaves pdfCollections as it was; no upload changes or removes an
\* entry that was there
C27_UploadRegistersAfterSuccess ==
  [][UploadStep =>
       LET file == Head(pendingUploads)
           minted == uploadResponse'.pdfId
       IN  /\ uploadResponse'.status = 200 =>
                /\ file # "none"
                /\ queue' = Append(queue, [pdfId |-> minted, filename |-> file])
                /\ minted \notin DOMAIN pdfCollections
                /\ DOMAIN pdfCollections' = DOMAIN pdfCollections \cup {minted}
           /\ uploadResponse'.status # 200 => pdfCollections' = pdfCollections
           /\ (file # "none" /\ queue' = queue) => uploadResponse'.status = 500
           /\ (variant = "server" /\ file = "corrupt.pdf") =>
                uploadResponse'.status = 500
           /\ \A id \in DOMAIN pdfCollections :
                /\ id \in DOMAIN pdfCollections'
                /\ pdfCollections'[id] = pdfCollections[id]]_vars

\* an upload failed with a document registered before it
C27_Witness ==
  /\ uploadResponse.status = 500
  /\ pdfCollections # << >>
  /\ pendingUploads = << >>

\* the values of i of the batches before the batch at i
earlierBatches(start) == {k * batchSize : k \in 0..((start \div batchSize) - 1)}

\* the earlier step was an attempt to store a batch
AttemptStep == wpc = "storing" /\ workerVars' # workerVars

\* C22: a batch is attempted with fewer than 10 failures behind it and with
\* exactly the batches before it stored; a success moves to the next batch, a
\* failure before the 10th repeats the batch, the 10th failure ends the job
\* as failed with the error of the attempt and nothing more is stored
C22_BatchesInOrder ==
  [][AttemptStep =>
       /\ retries < maxRetries
       /\ batchStart < chunkCount
       /\ stored = earlierBatches(batchStart)
       /\ \/ /\ stored' = stored \cup {batchStart}
             /\ retries' = 0
             /\ batchStart' = batchStart + batchSize
             /\ job' = job
          \/ /\ retries + 1 < maxRetries
             /\ retries' = retries + 1
             /\ stored' = stored
             /\ batchStart' = batchStart
             /\ wpc' = "storing"
             /\ job' = job
          \/ /\ retries + 1 = maxRetries
             /\ wpc' = "idle"
             /\ job' = NoJob
             /\ jobResult'[job.pdfId] = failed(BatchError)
             /\ vectorCollections' = vectorCollections
             /\ queue' = queue]_vars

\* the third batch has failed nine times
C22_Witness ==
  /\ wpc = "storing"
  /\ batchStart = 2 * batchSize
  /\ retries = maxRetries - 1

\* the registered documents whose job completed with chunks stored
Indexed ==
  {id \in DOMAIN pdfCollections :
     /\ id \in DOMAIN jobResult
     /\ jobResult[id].state = "completed"
     /\ jobResult[id].chunks > 0}

\* C26: the collection of a registered document whose job completed is
\* removed by no step
C26_IndexedCollectionKept ==
  [][\A id \in Indexed :
       id \in DOMAIN vectorCollections => id \in DOMAIN vectorCollections']_vars

\* C30: a health request that met Redis and Qdrant answering is answered 200
\* "healthy"; one answered 500 "unhealthy" met one of the two failing
C30_HealthReflectsServices ==
  healthResponse.status # 0 =>
    /\ (services.redis = "up" /\ services.qdrant = "ok") =>
         (healthResponse.status = 200 /\ healthResponse.state = "healthy")
    /\ healthResponse.status = 500 =>
         (services.redis # "up" \/ services.qdrant # "ok")

====
